---- MODULE Spec2Model ----
(***************************************************************************)
(* A model of the tree-walking evaluator of src/eval.go: the value        *)
(* variants and their Eq methods, the scope chain (get / put / update),   *)
(* and the evalExpr cases for literals, lists, objects, functions,        *)
(* identifiers, assignments, property access, binary operators, calls,    *)
(* if-match and blocks.                                                    *)
(*                                                                         *)
(* Go strings and byte slices are sequences of one-character strings.     *)
(* A scope struct is {parent *scope, vars map}: copying the struct shares *)
(* the map, and neither field is reassigned after construction, so a      *)
(* scope is identified with its map: scopes[i] is a live map together     *)
(* with the parent of the struct that owns it.  In this model a function  *)
(* value is only ever bound in the scope it was defined in, so the scope  *)
(* of a block or call is unreachable once that block or call has returned *)
(* and is dropped there: the live scopes are the root and the scopes of   *)
(* the active blocks and calls.                                           *)
(***************************************************************************)
EXTENDS Integers, Sequences, FiniteSets, TLC

VARIABLES scopes, defns, stack, status, last, vst

vars == <<scopes, defns, stack, status, last, vst>>

(***************************************************************************)
(* Bounds of the model.                                                    *)
(***************************************************************************)
MaxScopes == 4
MaxDefns == 1
MaxListLen == 2
MaxEntries == 2
MaxBranches == 4

(***************************************************************************)
(* Values: one record per variant of the Value interface.                  *)
(***************************************************************************)
empty == [tag |-> "Empty"]

null == [tag |-> "Null"]

StringValue(bytes) == [tag |-> "String", val |-> bytes]

IntValue(i) == [tag |-> "Int", val |-> i]

\* a float is modelled by the number of halves it holds (h stands for h/2)
FloatValue(h) == [tag |-> "Float", val |-> h]

BoolValue(b) == [tag |-> "Bool", val |-> b]

AtomValue(a) == [tag |-> "Atom", val |-> a]

ListValue(elems) == [tag |-> "List", val |-> elems]

ObjectValue(m) == [tag |-> "Object", val |-> m]

\* a function value that captures the root scope, not the defining one
FnValueRootScope(d, sc) == [tag |-> "Fn", defn |-> d, scope |-> 1]

FnValue(d, sc) == [tag |-> "Fn", defn |-> d, scope |-> sc]

(***************************************************************************)
(* The Eq method of every variant.                                         *)
(***************************************************************************)
RECURSIVE Eq(_, _)

EmptyValueEq(v, u) == TRUE

\* a Null that equals every value
NullValueEqAny(v, u) == TRUE

NullValueEq(v, u) ==
    IF u.tag = "Empty" THEN TRUE
    ELSE IF u.tag = "Null" THEN TRUE
    ELSE FALSE

StringValueEq(v, u) ==
    IF u.tag = "Empty" THEN TRUE
    ELSE IF u.tag = "String" THEN v.val = u.val
    ELSE FALSE

IntValueEq(v, u) ==
    IF u.tag = "Empty" THEN TRUE
    ELSE IF u.tag = "Int" THEN v.val = u.val
    ELSE FALSE

FloatValueEq(v, u) ==
    IF u.tag = "Empty" THEN TRUE
    ELSE IF u.tag = "Float" THEN v.val = u.val
    ELSE FALSE

BoolValueEq(v, u) ==
    IF u.tag = "Empty" THEN TRUE
    ELSE IF u.tag = "Bool" THEN v.val = u.val
    ELSE FALSE

AtomValueEq(v, u) ==
    IF u.tag = "Empty" THEN TRUE
    ELSE IF u.tag = "Atom" THEN v.val = u.val
    ELSE FALSE

\* a list comparison that forgets the length check and stops at the shorter
ListValueEqNoLen(v, u) ==
    IF u.tag = "Empty" THEN TRUE
    ELSE IF u.tag = "List"
         THEN \A i \in 1..Len(v.val) : i <= Len(u.val) => Eq(v.val[i], u.val[i])
    ELSE FALSE

ListValueEq(v, u) ==
    IF u.tag = "Empty" THEN TRUE
    ELSE IF u.tag = "List"
         THEN IF Len(v.val) # Len(u.val) THEN FALSE
              ELSE \A i \in 1..Len(v.val) : Eq(v.val[i], u.val[i])
    ELSE FALSE

ObjectValueEq(v, u) ==
    IF u.tag = "Empty" THEN TRUE
    ELSE IF u.tag = "Object"
         THEN IF Cardinality(DOMAIN v.val) # Cardinality(DOMAIN u.val) THEN FALSE
              ELSE \A key \in DOMAIN v.val :
                      IF key \in DOMAIN u.val THEN Eq(v.val[key], u.val[key])
                      ELSE FALSE
    ELSE FALSE

FnValueEq(v, u) ==
    IF u.tag = "Fn" THEN v.defn = u.defn
    ELSE FALSE

Eq(v, u) ==
    CASE v.tag = "Empty"  -> EmptyValueEq(v, u)
      [] v.tag = "Null"   -> NullValueEq(v, u)
      [] v.tag = "String" -> StringValueEq(v, u)
      [] v.tag = "Int"    -> IntValueEq(v, u)
      [] v.tag = "Float"  -> FloatValueEq(v, u)
      [] v.tag = "Bool"   -> BoolValueEq(v, u)
      [] v.tag = "Atom"   -> AtomValueEq(v, u)
      [] v.tag = "List"   -> ListValueEq(v, u)
      [] v.tag = "Object" -> ObjectValueEq(v, u)
      [] v.tag = "Fn"     -> FnValueEq(v, u)

(***************************************************************************)
(* Outcomes of an evaluation: a value, a runtimeError (returned up through *)
(* every enclosing evalExpr), or a Go panic (the process dies).  status   *)
(* is "idle" between programs, "running" inside evalProgram, "error"      *)
(* while a runtimeError is being returned up, "panic" after a panic.      *)
(***************************************************************************)
Ok(v) == [kind |-> "ok", val |-> v]

\* the chain of frames of a zero stackEntry: no function name, no parent
stackEntry == <<>>

\* no code sets the stackTrace field of a runtimeError
runtimeError(reason) ==
    [kind |-> "err", reason |-> reason, stackTrace |-> stackEntry]

Panic(reason) == [kind |-> "panic", reason |-> reason]

(***************************************************************************)
(* The scope chain.  heap is the sequence of scopes allocated so far;     *)
(* parent = 0 is the nil parent of the root scope.                         *)
(***************************************************************************)
Names == {"n", "f"}

\* the names this model assigns to
AssignNames == {"n"}

\* m[name] = v on a Go map
MapSet(m, name, v) ==
    [x \in (DOMAIN m) \cup {name} |-> IF x = name THEN v ELSE m[x]]

emptyMap == [x \in {} |-> null]

RECURSIVE get(_, _, _)
get(heap, sc, name) ==
    IF name \in DOMAIN heap[sc].vars THEN Ok(heap[sc].vars[name])
    ELSE IF heap[sc].parent # 0 THEN get(heap, heap[sc].parent, name)
    ELSE runtimeError("undefined")

\* an update that always writes the scope it is called on
updateLocalOnly(heap, sc, name, v) ==
    [err |-> FALSE, heap |-> [heap EXCEPT ![sc].vars = MapSet(@, name, v)]]

\* an update that creates the binding at the root when no scope defines it
RECURSIVE updateOrCreate(_, _, _, _)
updateOrCreate(heap, sc, name, v) ==
    IF name \in DOMAIN heap[sc].vars \/ heap[sc].parent = 0
    THEN [err |-> FALSE, heap |-> [heap EXCEPT ![sc].vars = MapSet(@, name, v)]]
    ELSE updateOrCreate(heap, heap[sc].parent, name, v)

RECURSIVE update(_, _, _, _)
update(heap, sc, name, v) ==
    IF name \in DOMAIN heap[sc].vars
    THEN [err |-> FALSE, heap |-> [heap EXCEPT ![sc].vars = MapSet(@, name, v)]]
    ELSE IF heap[sc].parent # 0 THEN update(heap, heap[sc].parent, name, v)
    ELSE [err |-> TRUE, heap |-> heap]

\* a put that overwrites an enclosing scope's binding when there is one
putOrUpdate(heap, sc, name, v) ==
    LET u == update(heap, sc, name, v)
    IN IF u.err THEN [heap EXCEPT ![sc].vars = MapSet(@, name, v)] ELSE u.heap

put(heap, sc, name, v) ==
    [heap EXCEPT ![sc].vars = MapSet(@, name, v)]

\* NewContext: the root scope, no parent, no variables.  The ghost field fn
\* names the definition whose call created the scope (0: not a call scope).
NewContext == <<[parent |-> 0, vars |-> emptyMap, fn |-> 0]>>

\* the scope evalExpr was called with in the innermost active evaluation
Top == stack[Len(stack)]

\* values an evaluated right-hand side can have in this model
AssignVals == {IntValue(10), IntValue(30)}

FnNames == {"", "f"}

\* the parameter lists of the function literals of this model; no body reads
\* or assigns the parameter p
ParamLists == {<<"p">>}

\* evalExpr returns a runtimeError to its caller
Raise ==
    /\ status' = "error"
    /\ UNCHANGED stack

\* the scopes and definitions that remain when the innermost scope is dropped
dropScope(heap) == SubSeq(heap, 1, Len(heap) - 1)

dropDefns(ds, sc) == SelectSeq(ds, LAMBDA d : d.at # sc)

(***************************************************************************)
(* evalProgram and the blockNode case: a block evaluates its expressions  *)
(* in a fresh scope whose parent is the scope the block is evaluated in.  *)
(***************************************************************************)
blockScope(sc) == [parent |-> sc, vars |-> emptyMap, fn |-> 0]

\* the names the top-level scope of the program before this one bound when
\* that program ended without an error
prevBound == IF last.op = "exitBlock" THEN last.bound ELSE {}

\* a program whose expressions are evaluated in the root scope itself
evalProgramInRoot ==
    /\ status = "idle"
    /\ stack' = <<[sc |-> 1, kind |-> "block"]>>
    /\ status' = "running"
    /\ last' = [op |-> "evalProgram", sc |-> 1, prev |-> prevBound]
    /\ UNCHANGED <<scopes, defns, vst>>

\* c.scope is the root scope, scopes[1]; the program is a block evaluated
\* in it
evalProgram ==
    /\ status = "idle"
    /\ scopes' = Append(scopes, blockScope(1))
    /\ stack' = <<[sc |-> Len(scopes) + 1, kind |-> "block"]>>
    /\ status' = "running"
    /\ last' = [op |-> "evalProgram", sc |-> Len(scopes) + 1, prev |-> prevBound]
    /\ UNCHANGED <<defns, vst>>

EnterBlock ==
    /\ status = "running"
    /\ Len(scopes) < MaxScopes
    /\ scopes' = Append(scopes, blockScope(Top.sc))
    /\ stack' = Append(stack, [sc |-> Len(scopes) + 1, kind |-> "block"])
    /\ last' = [op |-> "enterBlock", sc |-> Len(scopes) + 1]
    /\ UNCHANGED <<defns, status, vst>>

ExitBlock ==
    /\ status = "running"
    /\ Top.kind = "block"
    /\ stack' = SubSeq(stack, 1, Len(stack) - 1)
    /\ scopes' = dropScope(scopes)
    /\ defns' = dropDefns(defns, Top.sc)
    /\ status' = IF Len(stack) = 1 THEN "idle" ELSE "running"
    /\ last' = [op |-> "exitBlock", sc |-> Top.sc,
                bound |-> IF Len(stack) = 1 THEN DOMAIN scopes[Top.sc].vars ELSE {}]
    /\ UNCHANGED vst

\* a runtimeError is returned by the innermost block or call to its caller
Propagate ==
    /\ status = "error"
    /\ stack' = SubSeq(stack, 1, Len(stack) - 1)
    /\ scopes' = dropScope(scopes)
    /\ defns' = dropDefns(defns, Top.sc)
    /\ status' = IF Len(stack) = 1 THEN "idle" ELSE "error"
    /\ last' = [op |-> "propagate", sc |-> Top.sc, res |-> last.res]
    /\ UNCHANGED vst

(***************************************************************************)
(* identifierNode and assignmentNode with an identifier target.            *)
(***************************************************************************)
EvalIdentifier(name) ==
    /\ status = "running"
    /\ LET r == get(scopes, Top.sc, name)
       IN /\ last' = [op |-> "identifier", sc |-> Top.sc, name |-> name, res |-> r]
          /\ IF r.kind = "err" THEN Raise ELSE UNCHANGED <<stack, status>>
    /\ UNCHANGED <<scopes, defns, vst>>

EvalAssignment(name, v, isLocal) ==
    /\ status = "running"
    /\ IF isLocal
       THEN /\ scopes' = put(scopes, Top.sc, name, v)
            /\ last' = [op |-> "assignLocal", sc |-> Top.sc, name |-> name,
                        res |-> Ok(v)]
            /\ UNCHANGED <<stack, status>>
       ELSE LET u == update(scopes, Top.sc, name, v)
            IN /\ scopes' = u.heap
               /\ last' = [op |-> "assignNonlocal", sc |-> Top.sc, name |-> name,
                           res |-> IF u.err THEN runtimeError("undefined") ELSE Ok(v)]
               /\ IF u.err THEN Raise ELSE UNCHANGED <<stack, status>>
    /\ UNCHANGED <<defns, vst>>

(***************************************************************************)
(* The String method of the scalar variants (Go strings as sequences of   *)
(* characters).  FloatValue(h) holds h/2; for the magnitudes used here    *)
(* FormatFloat(v, 'g', -1, 64) prints the integer part and ".5" when h is *)
(* odd, and no fraction when h is even.                                    *)
(***************************************************************************)
DigitChars == <<"0", "1", "2", "3", "4", "5", "6", "7", "8", "9">>

RECURSIVE FormatNat(_)
FormatNat(n) ==
    IF n < 10 THEN <<DigitChars[n + 1]>>
    ELSE FormatNat(n \div 10) \o <<DigitChars[(n % 10) + 1]>>

FormatInt(i) == IF i < 0 THEN <<"-">> \o FormatNat(-i) ELSE FormatNat(i)

FormatFloat(h) ==
    LET a == IF h < 0 THEN -h ELSE h
        digits == IF a % 2 = 0 THEN FormatNat(a \div 2)
                  ELSE FormatNat(a \div 2) \o <<".", "5">>
    IN IF h < 0 THEN <<"-">> \o digits ELSE digits

String(v) ==
    CASE v.tag = "Empty"  -> <<"_">>
      [] v.tag = "Null"   -> <<"?">>
      [] v.tag = "String" -> <<"'">> \o v.val \o <<"'">>
      [] v.tag = "Int"    -> FormatInt(v.val)
      [] v.tag = "Float"  -> FormatFloat(v.val)
      [] v.tag = "Bool"   -> IF v.val THEN <<"t", "r", "u", "e">>
                             ELSE <<"f", "a", "l", "s", "e">>
      [] v.tag = "Atom"   -> <<":">> \o v.val

(***************************************************************************)
(* evalExpr on expressions without scope effects.  A node of kind "value" *)
(* is a literal (or any expression that evaluated to that value), "fail"  *)
(* is an expression that returns a runtimeError, "list" and "object" are  *)
(* listNode and objectNode, "binary" is binaryNode.                        *)
(***************************************************************************)
valueNode(v) == [kind |-> "value", val |-> v]

failNode == [kind |-> "fail"]

listNode(elems) == [kind |-> "list", elems |-> elems]

objectNode(entries) == [kind |-> "object", entries |-> entries]

identKey(payload) == [kind |-> "ident", payload |-> payload]

binaryNode(op, left, right) ==
    [kind |-> "binary", op |-> op, left |-> left, right |-> right]

emptyObject == [x \in {} |-> null]

RECURSIVE evalExpr(_)
RECURSIVE evalElems(_, _, _)
RECURSIVE evalEntries(_, _, _)

\* the loop of the listNode case from element i on, elems evaluated so far
evalElems(nodes, i, elems) ==
    IF i > Len(nodes) THEN Ok(ListValue(elems))
    ELSE LET r == evalExpr(nodes[i])
         IN IF r.kind # "ok" THEN r
            ELSE evalElems(nodes, i + 1, Append(elems, r.val))

\* the key string of an entry: an identifier's name, or the evaluated key
keyString(key) ==
    IF key.kind = "ident" THEN Ok(key.payload)
    ELSE LET r == evalExpr(key)
         IN IF r.kind # "ok" THEN r
            ELSE IF r.val.tag = "String" THEN Ok(r.val.val)
            ELSE IF r.val.tag = "Int" THEN Ok(String(r.val))
            ELSE IF r.val.tag = "Float" THEN Ok(String(r.val))
            ELSE runtimeError("Expected a string or number as object key")

\* the loop of the objectNode case from entry i on, obj built so far
evalEntries(entries, i, obj) ==
    IF i > Len(entries) THEN Ok(ObjectValue(obj))
    ELSE LET k == keyString(entries[i].key)
         IN IF k.kind # "ok" THEN k
            ELSE LET r == evalExpr(entries[i].val)
                 IN IF r.kind # "ok" THEN r
                    ELSE evalEntries(entries, i + 1, MapSet(obj, k.val, r.val))

evalExpr(node) ==
    CASE node.kind = "value"  -> Ok(node.val)
      [] node.kind = "fail"   -> runtimeError("undefined")
      [] node.kind = "list"   -> evalElems(node.elems, 1, <<>>)
      [] node.kind = "object" -> evalEntries(node.entries, 1, emptyObject)
      [] node.kind = "binary" -> Panic("binaryNode not implemented!")

(***************************************************************************)
(* fnNode: a function value holds a pointer to its definition and the     *)
(* scope it was evaluated in; a named definition is put in that scope.    *)
(* defns[d] is the definition behind pointer d (a fresh pointer for every *)
(* evaluation of a fnNode).  Ghost fields: at is the scope the definition *)
(* was evaluated in, seen is what name n read there at that moment.  The  *)
(* value of an anonymous function is bound nowhere in this model, so its  *)
(* definition is not kept; a named definition replaces the one its scope  *)
(* bound under the name before, which nothing refers to any more.         *)
(***************************************************************************)
EvalFn(name, params) ==
    /\ status = "running"
    /\ name # "" => Len(dropDefns(defns, Top.sc)) < MaxDefns
    /\ LET live == IF name # "" THEN dropDefns(defns, Top.sc) ELSE defns
           d == Len(live) + 1
           fn == FnValue(d, Top.sc)
       IN /\ defns' = IF name # ""
                      THEN Append(live, [name |-> name, args |-> params,
                                          at |-> Top.sc,
                                          seen |-> get(scopes, Top.sc, "n")])
                      ELSE defns
          /\ scopes' = IF name # "" THEN put(scopes, Top.sc, name, fn) ELSE scopes
          /\ last' = [op |-> "fn", sc |-> Top.sc, name |-> name, res |-> Ok(fn)]
    /\ UNCHANGED <<stack, status, vst>>

(***************************************************************************)
(* Sub-expressions of a composite, evaluated in a scope.  Besides the     *)
(* nodes without scope effects there is the assignment to an identifier.  *)
(* evalIn gives the scopes the evaluation leaves and its outcome.         *)
(***************************************************************************)
assignNode(name, v, isLocal) ==
    [kind |-> "assign", name |-> name, val |-> v, isLocal |-> isLocal]

evalIn(heap, sc, node) ==
    IF node.kind = "assign"
    THEN IF node.isLocal
         THEN [heap |-> put(heap, sc, node.name, node.val), res |-> Ok(node.val)]
         ELSE LET u == update(heap, sc, node.name, node.val)
              IN [heap |-> u.heap,
                  res |-> IF u.err THEN runtimeError("undefined")
                          ELSE Ok(node.val)]
    ELSE [heap |-> heap, res |-> evalExpr(node)]

\* sub-expression i of the composite was evaluated
Ev(what, i) == [what |-> what, i |-> i]

\* a loop that evaluates every sub-expression and then returns the first error
RECURSIVE evalSeqNoStop(_, _, _, _, _, _)
evalSeqNoStop(heap, sc, nodes, i, vals, log) ==
    IF i > Len(nodes) THEN [heap |-> heap, res |-> Ok(vals), log |-> log]
    ELSE LET r == evalIn(heap, sc, nodes[i])
             rest == evalSeqNoStop(r.heap, sc, nodes, i + 1,
                                   Append(vals, null), Append(log, Ev("sub", i)))
         IN IF r.res.kind # "ok"
            THEN [heap |-> rest.heap, res |-> r.res, log |-> rest.log]
            ELSE evalSeqNoStop(r.heap, sc, nodes, i + 1,
                               Append(vals, r.res.val), Append(log, Ev("sub", i)))

\* the loop over the sub-expressions of a listNode or of the arguments of a
\* fnCallNode, from sub-expression i on: the first error is returned at once
RECURSIVE evalSeq(_, _, _, _, _, _)
evalSeq(heap, sc, nodes, i, vals, log) ==
    IF i > Len(nodes) THEN [heap |-> heap, res |-> Ok(vals), log |-> log]
    ELSE LET r == evalIn(heap, sc, nodes[i])
         IN IF r.res.kind # "ok"
            THEN [heap |-> r.heap, res |-> r.res, log |-> Append(log, Ev("sub", i))]
            ELSE evalSeq(r.heap, sc, nodes, i + 1,
                         Append(vals, r.res.val), Append(log, Ev("sub", i)))

\* the loop over the entries of an objectNode from entry i on
RECURSIVE evalEntriesIn(_, _, _, _, _, _)
evalEntriesIn(heap, sc, entries, i, obj, log) ==
    IF i > Len(entries)
    THEN [heap |-> heap, res |-> Ok(ObjectValue(obj)), log |-> log]
    ELSE LET k == keyString(entries[i].key)
         IN IF k.kind # "ok" THEN [heap |-> heap, res |-> k, log |-> log]
            ELSE LET r == evalIn(heap, sc, entries[i].val)
                     log1 == Append(log, Ev("sub", i))
                 IN IF r.res.kind # "ok"
                    THEN [heap |-> r.heap, res |-> r.res, log |-> log1]
                    ELSE evalEntriesIn(r.heap, sc, entries, i + 1,
                                       MapSet(obj, k.val, r.res.val), log1)

\* the sub-expression lists of the composites of this model
v10 == valueNode(IntValue(10))
v30 == valueNode(IntValue(30))
asg == assignNode("n", IntValue(30), TRUE)

ElemLists == {<<v30, v10>>, <<asg, failNode>>, <<failNode, asg>>}

EntryLists == {<<v30, v10>>, <<asg, failNode>>}

ArgLists == {<<>>, <<asg>>, <<v30, v10>>, <<asg, failNode>>, <<failNode, asg>>}

\* entry i of an object literal has the identifier key a (i = 1) or b
entriesOf(nodes) ==
    [i \in 1..Len(nodes) |->
        [key |-> identKey(IF i = 1 THEN <<"a">> ELSE <<"b">>), val |-> nodes[i]]]

EvalListNode(nodes) ==
    /\ status = "running"
    /\ LET r == evalSeq(scopes, Top.sc, nodes, 1, <<>>, <<>>)
       IN /\ scopes' = r.heap
          /\ last' = [op |-> "list", sc |-> Top.sc, nodes |-> nodes, log |-> r.log,
                      res |-> IF r.res.kind = "ok" THEN Ok(ListValue(r.res.val))
                              ELSE r.res]
          /\ IF r.res.kind # "ok" THEN Raise ELSE UNCHANGED <<stack, status>>
    /\ UNCHANGED <<defns, vst>>

EvalObjectNode(nodes) ==
    /\ status = "running"
    /\ LET r == evalEntriesIn(scopes, Top.sc, entriesOf(nodes), 1, emptyObject, <<>>)
       IN /\ scopes' = r.heap
          /\ last' = [op |-> "object", sc |-> Top.sc, nodes |-> nodes,
                      log |-> r.log, res |-> r.res]
          /\ IF r.res.kind # "ok" THEN Raise ELSE UNCHANGED <<stack, status>>
    /\ UNCHANGED <<defns, vst>>

(***************************************************************************)
(* fnCallNode: the callee is an identifier.  The arguments are evaluated  *)
(* before the callee is looked at.  args[:len(fn.defn.args)] panics when  *)
(* the function declares more parameters than the capacity of args, which *)
(* is the number of arguments supplied.                                    *)
(***************************************************************************)
RECURSIVE bindArgs(_, _, _, _)
bindArgs(m, params, args, i) ==
    IF i > Len(params) THEN m
    ELSE bindArgs(MapSet(m, params[i], args[i]), params, args, i + 1)

\* a call scope that hangs off the caller's scope instead of the captured one
fnScopeDynamic(fn, params, args, sc) ==
    [parent |-> sc, vars |-> bindArgs(emptyMap, params, args, 1), fn |-> fn.defn]

\* a call scope that hangs off the root scope
fnScopeRoot(fn, params, args, sc) ==
    [parent |-> 1, vars |-> bindArgs(emptyMap, params, args, 1), fn |-> fn.defn]

fnScope(fn, params, args, sc) ==
    [parent |-> fn.scope, vars |-> bindArgs(emptyMap, params, args, 1),
     fn |-> fn.defn]

\* an argument loop that is skipped when the callee is not a function
evalArgsCalleeFirst(heap, sc, maybeFn, argNodes) ==
    IF maybeFn.tag # "Fn"
    THEN [heap |-> heap, res |-> Ok(<<>>), log |-> <<>>]
    ELSE evalSeq(heap, sc, argNodes, 1, <<>>, <<>>)

\* the argument loop; maybeFn is the evaluated callee, not looked at yet
evalArgs(heap, sc, maybeFn, argNodes) ==
    evalSeq(heap, sc, argNodes, 1, <<>>, <<>>)

EvalFnCall(name, argNodes) ==
    /\ status = "running"
    /\ LET maybeFn == get(scopes, Top.sc, name)
           a == evalArgs(scopes, Top.sc, maybeFn.val, argNodes)
           args == a.res.val
           isFn == maybeFn.val.tag = "Fn"
           params == defns[maybeFn.val.defn].args
           new == Len(scopes) + 1
       IN IF maybeFn.kind = "err"
          THEN /\ last' = [op |-> "call", sc |-> Top.sc, name |-> name,
                           argNodes |-> argNodes, res |-> maybeFn]
               /\ Raise
               /\ UNCHANGED scopes
          ELSE IF a.res.kind # "ok"
          THEN /\ last' = [op |-> "call", sc |-> Top.sc, name |-> name,
                           argNodes |-> argNodes, callee |-> maybeFn.val,
                           log |-> a.log,
                           res |-> a.res]
               /\ scopes' = a.heap
               /\ Raise
          ELSE IF ~isFn
          THEN /\ last' = [op |-> "call", sc |-> Top.sc, name |-> name,
                           argNodes |-> argNodes, callee |-> maybeFn.val,
                           log |-> a.log,
                           res |-> runtimeError("not a function")]
               /\ scopes' = a.heap
               /\ Raise
          ELSE IF Len(params) > Len(args)
          THEN /\ last' = [op |-> "call", sc |-> Top.sc, name |-> name,
                           argNodes |-> argNodes, callee |-> maybeFn.val,
                           log |-> a.log,
                           args |-> args, fn |-> maybeFn.val,
                           res |-> Panic("slice bounds out of range")]
               /\ scopes' = a.heap
               /\ status' = "panic"
               /\ UNCHANGED stack
          ELSE /\ Len(scopes) < MaxScopes
               /\ scopes' = Append(a.heap,
                      fnScope(maybeFn.val, params,
                              SubSeq(args, 1, Len(params)), Top.sc))
               /\ stack' = Append(stack, [sc |-> new, kind |-> "call"])
               /\ last' = [op |-> "call", sc |-> Top.sc, name |-> name,
                           argNodes |-> argNodes, callee |-> maybeFn.val,
                           log |-> a.log,
                           args |-> args, fn |-> maybeFn.val,
                           res |-> Ok(null), fnScope |-> new]
               /\ UNCHANGED status
    /\ UNCHANGED <<defns, vst>>

\* the body's value is returned to the caller
Return ==
    /\ status = "running"
    /\ Top.kind = "call"
    /\ stack' = SubSeq(stack, 1, Len(stack) - 1)
    /\ scopes' = dropScope(scopes)
    /\ defns' = dropDefns(defns, Top.sc)
    /\ last' = [op |-> "return", sc |-> Top.sc]
    /\ UNCHANGED <<status, vst>>

(***************************************************************************)
(* propertyAccessNode on evaluated operands.  An index equal to the       *)
(* length passes the bounds test (index > len is the test) and the        *)
(* indexing expression then panics.                                        *)
(***************************************************************************)
\* the bounds test of the code: i < 0 || i > len returns null
indexPassesTest(i, length) == ~(i < 0 \/ i > length)

propertyAccess(left, right) ==
    CASE left.tag = "String" ->
           IF right.tag # "Int"
           THEN runtimeError("Cannot index into string with non-integer index")
           ELSE IF ~indexPassesTest(right.val, Len(left.val)) THEN Ok(null)
           ELSE IF right.val >= Len(left.val) THEN Panic("index out of range")
           ELSE Ok(StringValue(<<left.val[right.val + 1]>>))
      [] left.tag = "List" ->
           IF right.tag # "Int"
           THEN runtimeError("Cannot index into list with non-integer index")
           ELSE IF ~indexPassesTest(right.val, Len(left.val)) THEN Ok(null)
           ELSE IF right.val >= Len(left.val) THEN Panic("index out of range")
           ELSE Ok(left.val[right.val + 1])
      [] left.tag = "Object" ->
           LET objKey == String(right)
           IN IF objKey \in DOMAIN left.val THEN Ok(left.val[objKey])
              ELSE Ok(null)
      [] OTHER -> runtimeError("Expected string, list, or object")

(***************************************************************************)
(* ifExprNode: the loop over the branches from branch i on.  log lists    *)
(* the sub-expressions evaluated, in order.                                *)
(***************************************************************************)
\* a branch loop that tests target.Eq(cond) instead of cond.Eq(target)
RECURSIVE ifBranchesSwapped(_, _, _, _)
ifBranchesSwapped(cond, branches, i, log) ==
    IF i > Len(branches) THEN [log |-> log, res |-> Ok(null)]
    ELSE LET target == evalExpr(branches[i].target)
             log1 == Append(log, Ev("target", i))
         IN IF target.kind # "ok" THEN [log |-> log1, res |-> target]
            ELSE IF Eq(target.val, cond)
                 THEN [log |-> Append(log1, Ev("body", i)),
                       res |-> evalExpr(branches[i].body)]
            ELSE ifBranchesSwapped(cond, branches, i + 1, log1)

RECURSIVE ifBranches(_, _, _, _)
ifBranches(cond, branches, i, log) ==
    IF i > Len(branches) THEN [log |-> log, res |-> Ok(null)]
    ELSE LET target == evalExpr(branches[i].target)
             log1 == Append(log, Ev("target", i))
         IN IF target.kind # "ok" THEN [log |-> log1, res |-> target]
            ELSE IF Eq(cond, target.val)
                 THEN [log |-> Append(log1, Ev("body", i)),
                       res |-> evalExpr(branches[i].body)]
            ELSE ifBranches(cond, branches, i + 1, log1)

ifExpr(condNode, branches) ==
    LET cond == evalExpr(condNode)
        log0 == <<Ev("cond", 0)>>
    IN IF cond.kind # "ok" THEN [log |-> log0, res |-> cond]
       ELSE ifBranches(cond.val, branches, 1, log0)

(***************************************************************************)
(* The evaluator as a state machine.                                       *)
(***************************************************************************)
vstInit == [op |-> "none"]

Init ==
    /\ scopes = NewContext
    /\ defns = <<>>
    /\ stack = <<>>
    /\ status = "idle"
    /\ last = [op |-> "none"]
    /\ vst = vstInit

Next ==
    \/ evalProgram
    \/ EnterBlock
    \/ ExitBlock
    \/ Propagate
    \/ \E name \in Names : EvalIdentifier(name)
    \/ \E name \in AssignNames, v \in AssignVals, isLocal \in BOOLEAN :
          EvalAssignment(name, v, isLocal)
    \/ \E name \in FnNames, params \in ParamLists : EvalFn(name, params)
    \/ \E nodes \in ElemLists : EvalListNode(nodes)
    \/ \E nodes \in EntryLists : EvalObjectNode(nodes)
    \/ \E name \in Names, argNodes \in ArgLists : EvalFnCall(name, argNodes)
    \/ Return

Spec == Init /\ [][Next]_vars

(***************************************************************************)
(* The value-level operations as a state machine of their own: Eq on two  *)
(* evaluated expressions, property access, if-match and the push         *)
(* operator.  vst holds the operation applied, its operands and its       *)
(* outcome; one operation is applied to each choice of operands.          *)
(***************************************************************************)
SeqsUpTo(S, n) == UNION {[1..k -> S] : k \in 0..n}

LeafValues ==
    {empty, null, StringValue(<<>>), StringValue(<<"a", "b", "c">>),
     IntValue(0), IntValue(5), FloatValue(1), BoolValue(TRUE), BoolValue(FALSE),
     AtomValue(<<"a">>), FnValue(1, 2), FnValue(2, 2)}

LeafNodes == {valueNode(v) : v \in LeafValues}

ElemNodes ==
    {valueNode(v) : v \in {empty, IntValue(0), IntValue(5), FnValue(1, 2)}}
    \cup {listNode(<<valueNode(IntValue(0))>>), listNode(<<valueNode(empty)>>)}

ListNodes == {listNode(es) : es \in SeqsUpTo(ElemNodes, MaxListLen)}

EntryNodes ==
    {[key |-> k, val |-> v] :
        k \in {identKey(<<"a">>), identKey(<<"b">>)},
        v \in {valueNode(IntValue(0)), valueNode(IntValue(5)), valueNode(empty),
               listNode(<<valueNode(IntValue(0))>>)}}

ObjectNodes == {objectNode(es) : es \in SeqsUpTo(EntryNodes, MaxEntries)}

OperandNodes == LeafNodes \cup ListNodes \cup ObjectNodes

\* no operation has been applied yet
Fresh == vst.op = "none"

\* v.Eq(u) and u.Eq(v) on the values of two expressions
CallEq(vNode, uNode) ==
    /\ Fresh
    /\ LET v == evalExpr(vNode).val
           u == evalExpr(uNode).val
       IN vst' = [op |-> "Eq", vNode |-> vNode, uNode |-> uNode,
                  v |-> v, u |-> u, vu |-> Eq(v, u), uv |-> Eq(u, v)]
    /\ UNCHANGED <<scopes, defns, stack, status, last>>

\* computed keys of an object literal: a String, an Int and a Float (0.5)
KeyNodes ==
    {valueNode(StringValue(<<"a">>)), valueNode(IntValue(1)),
     valueNode(FloatValue(1))}

IndexTargets ==
    ListNodes
    \cup {objectNode(<<[key |-> k, val |-> valueNode(IntValue(5))]>>) : k \in KeyNodes}
    \cup {valueNode(StringValue(b)) : b \in {<<>>, <<"a">>, <<"a", "b", "c">>}}
    \cup {objectNode(<<[key |-> identKey(<<"a">>), val |-> valueNode(IntValue(5))]>>),
          valueNode(IntValue(5)), failNode}

Indexes ==
    {valueNode(IntValue(i)) : i \in -2..4}
    \cup {valueNode(StringValue(<<"a">>)), valueNode(AtomValue(<<"a">>)), failNode}
    \cup KeyNodes

\* the propertyAccessNode case: both operands are evaluated, then the switch
EvalPropertyAccess(leftNode, rightNode) ==
    /\ Fresh
    /\ LET left == evalExpr(leftNode)
           right == evalExpr(rightNode)
           res == IF left.kind # "ok" THEN left
                  ELSE IF right.kind # "ok" THEN right
                  ELSE propertyAccess(left.val, right.val)
       IN vst' = [op |-> "propertyAccess", leftNode |-> leftNode,
                  rightNode |-> rightNode, left |-> left, right |-> right,
                  res |-> res]
    /\ UNCHANGED <<scopes, defns, stack, status, last>>

CondNodes ==
    {listNode(<<valueNode(IntValue(0)), valueNode(IntValue(5))>>),
     valueNode(IntValue(0)), valueNode(FnValue(1, 2)), valueNode(empty),
     valueNode(null)}

TargetNodes ==
    {listNode(<<valueNode(IntValue(0)), valueNode(IntValue(0))>>),
     listNode(<<valueNode(IntValue(0)), valueNode(empty)>>),
     listNode(<<valueNode(empty), valueNode(IntValue(0))>>),
     valueNode(empty), valueNode(IntValue(0)), failNode}

\* branch i has the literal i as its body
branchesOf(targets) ==
    [i \in 1..Len(targets) |->
        [target |-> targets[i], body |-> valueNode(IntValue(i))]]

EvalIfExpr(condNode, targets) ==
    /\ Fresh
    /\ LET r == ifExpr(condNode, branchesOf(targets))
       IN vst' = [op |-> "ifExpr", cond |-> evalExpr(condNode),
                  targets |-> targets, log |-> r.log, res |-> r.res]
    /\ UNCHANGED <<scopes, defns, stack, status, last>>

\* the binaryNode case, on a push of the value of rightNode onto a list
EvalBinary(leftNode, rightNode) ==
    /\ Fresh
    /\ vst' = [op |-> "binary", operator |-> "<<",
               left |-> evalExpr(leftNode), right |-> evalExpr(rightNode),
               res |-> evalExpr(binaryNode("<<", leftNode, rightNode))]
    /\ UNCHANGED <<scopes, defns, stack, status, last>>

NextVal ==
    \/ Fresh /\ \E vNode \in OperandNodes, uNode \in OperandNodes :
                   CallEq(vNode, uNode)
    \/ Fresh /\ \E leftNode \in IndexTargets, rightNode \in Indexes :
                   EvalPropertyAccess(leftNode, rightNode)
    \/ Fresh /\ \E condNode \in CondNodes,
                   targets \in SeqsUpTo(TargetNodes, MaxBranches) :
                   EvalIfExpr(condNode, targets)
    \/ Fresh /\ \E leftNode \in ListNodes, rightNode \in LeafNodes :
                   EvalBinary(leftNode, rightNode)

SpecVal == Init /\ [][NextVal]_vars

(***************************************************************************)
(* Properties.                                                             *)
(***************************************************************************)

\* C1: for every value v, v.Eq(Empty) and Empty.Eq(v) are both true.
\* (Violated: FnValue.Eq has no case for an Empty operand.)
C1_EqEmptyBothWays ==
    (vst.op = "Eq" /\ vst.u = empty) => (vst.vu /\ vst.uv)

\* C2: reading index i of a String or List of length L never fails: the
\* element (a one-byte String) when 0 <= i < L, Null for every other i.
\* (Violated: i = L passes the bounds test and the indexing panics.)
C2_IndexNeverFails ==
    (/\ vst.op = "propertyAccess"
     /\ vst.left.kind = "ok" /\ vst.left.val.tag \in {"String", "List"}
     /\ vst.right.kind = "ok" /\ vst.right.val.tag = "Int")
    => LET target == vst.left.val.val
           i == vst.right.val.val
       IN /\ vst.res.kind = "ok"
          /\ vst.res.val =
               IF 0 <= i /\ i < Len(target)
               THEN IF vst.left.val.tag = "String"
                    THEN StringValue(<<target[i + 1]>>)
                    ELSE target[i + 1]
               ELSE null

\* C3: a call with fewer arguments than parameters does not crash: the
\* arguments are bound positionally and the remaining parameters to Null.
\* (Violated: slicing args to the parameter count panics.)
C3_FewerArgsBindNull ==
    (/\ last.op = "call"
     /\ "fn" \in DOMAIN last
     /\ Len(last.args) < Len(defns[last.fn.defn].args))
    => /\ status # "panic"
       /\ last.res.kind = "ok"
       /\ LET params == defns[last.fn.defn].args
          IN \A i \in 1..Len(params) :
                scopes[last.fnScope].vars[params[i]] =
                   IF i <= Len(last.args) THEN last.args[i] ELSE null

\* C4: a nonlocal assignment n <- v overwrites n in the nearest scope of
\* the chain (from the current scope) that defines n and changes nothing
\* else; the defining scope and the assigning scope then read v, and a
\* block exit leaves the mapping of every enclosing scope as it is.
C4_NonlocalWritesNearest ==
    [][/\ (last'.op = "assignNonlocal" /\ last'.res.kind = "ok") =>
            LET sc == stack[Len(stack)].sc
                name == last'.name
                v == last'.res.val
                nearest[s \in 0..Len(scopes)] ==
                    IF s = 0 THEN 0
                    ELSE IF name \in DOMAIN scopes[s].vars THEN s
                    ELSE nearest[scopes[s].parent]
                d == nearest[sc]
            IN /\ d # 0
               /\ DOMAIN scopes' = DOMAIN scopes
               /\ \A s \in DOMAIN scopes :
                     /\ scopes'[s].parent = scopes[s].parent
                     /\ DOMAIN scopes'[s].vars = DOMAIN scopes[s].vars
                     /\ \A x \in DOMAIN scopes[s].vars :
                           scopes'[s].vars[x] =
                              IF s = d /\ x = name THEN v ELSE scopes[s].vars[x]
               /\ get(scopes', d, name) = Ok(v)
               /\ get(scopes', sc, name) = Ok(v)
       /\ (last'.op = "exitBlock") =>
             /\ Len(scopes') = Len(scopes) - 1
             /\ \A s \in DOMAIN scopes' : scopes'[s] = scopes[s]
      ]_vars

\* C4 witness: the assignment wrote a scope other than the current one, and
\* the scope above the written one still holds a different value of the name
C4_Witness ==
    /\ last.op = "assignNonlocal" /\ last.res.kind = "ok"
    /\ last.name \notin DOMAIN scopes[last.sc].vars
    /\ LET d == scopes[last.sc].parent
       IN /\ d # 0
          /\ last.name \in DOMAIN scopes[d].vars
          /\ scopes[d].vars[last.name] = last.res.val
          /\ scopes[d].parent # 0
          /\ last.name \in DOMAIN scopes[scopes[d].parent].vars
          /\ scopes[scopes[d].parent].vars[last.name] # last.res.val

\* C5: a local assignment n := v creates or overwrites n in the mapping of
\* the scope it is evaluated in and nowhere else: every other scope is
\* unchanged, and every ancestor scope reads what it read before.
C5_LocalWritesOwnScopeOnly ==
    [][(last'.op = "assignLocal") =>
          LET sc == stack[Len(stack)].sc
              name == last'.name
              v == last'.res.val
              ancestors[s \in 0..Len(scopes)] ==
                  IF s = 0 THEN {} ELSE {s} \cup ancestors[scopes[s].parent]
          IN /\ DOMAIN scopes' = DOMAIN scopes
             /\ \A s \in DOMAIN scopes : s # sc => scopes'[s] = scopes[s]
             /\ scopes'[sc].parent = scopes[sc].parent
             /\ DOMAIN scopes'[sc].vars = DOMAIN scopes[sc].vars \cup {name}
             /\ scopes'[sc].vars[name] = v
             /\ \A x \in DOMAIN scopes[sc].vars :
                   x # name => scopes'[sc].vars[x] = scopes[sc].vars[x]
             /\ \A a \in ancestors[scopes[sc].parent], x \in Names :
                   get(scopes', a, x) = get(scopes, a, x)
      ]_vars

\* C5 witness: the enclosing (non-root) scope holds a different value of the
\* name that was just assigned locally
C5_Witness ==
    /\ last.op = "assignLocal"
    /\ LET p == scopes[last.sc].parent
       IN /\ p # 0
          /\ last.name \in DOMAIN scopes[p].vars
          /\ scopes[p].vars[last.name] # last.res.val
          /\ scopes[last.sc].vars[last.name] = last.res.val

\* C6: in an if-match the subject is evaluated once and the patterns in
\* order; the result is the body of the first branch whose pattern p has
\* subject.Eq(p), nothing of a later branch and no body of an earlier branch
\* is evaluated, and without a match the result is Null.  (A pattern that
\* fails ends the evaluation with its error at that branch.)
C6_FirstMatchWins ==
    (vst.op = "ifExpr" /\ vst.cond.kind = "ok") =>
       LET n == Len(vst.targets)
           tv(i) == evalExpr(vst.targets[i])
           stops(i) == tv(i).kind # "ok" \/ Eq(vst.cond.val, tv(i).val)
           k == IF \E i \in 1..n : stops(i)
                THEN CHOOSE i \in 1..n : stops(i) /\ \A j \in 1..(i - 1) : ~stops(j)
                ELSE 0
           evaluated == IF k = 0 THEN n ELSE k
           matched == k # 0 /\ tv(k).kind = "ok"
           targetsLog == [i \in 1..evaluated |-> Ev("target", i)]
       IN /\ vst.log = <<Ev("cond", 0)>> \o targetsLog
                       \o (IF matched THEN <<Ev("body", k)>> ELSE <<>>)
          /\ vst.res = IF k = 0 THEN Ok(null)
                       ELSE IF matched THEN Ok(IntValue(k))
                       ELSE tv(k)

\* C6 witness: subject [0,5] against [0,0], [0,_], [_,0], _ took the second
C6_Witness ==
    /\ vst.op = "ifExpr"
    /\ vst.cond = Ok(ListValue(<<IntValue(0), IntValue(5)>>))
    /\ vst.targets =
         <<listNode(<<valueNode(IntValue(0)), valueNode(IntValue(0))>>),
           listNode(<<valueNode(IntValue(0)), valueNode(empty)>>),
           listNode(<<valueNode(empty), valueNode(IntValue(0))>>),
           valueNode(empty)>>
    /\ vst.res = Ok(IntValue(2))
    /\ vst.log = <<Ev("cond", 0), Ev("target", 1), Ev("target", 2), Ev("body", 2)>>

\* C7: a function captures its defining scope by reference: a read, in the
\* body of a call, of a name the call scope does not bind gives what the
\* defining scope reads for that name now, not what it read at creation.
C7_ClosureSeesLaterWrites ==
    (/\ last.op = "identifier"
     /\ scopes[last.sc].fn # 0
     /\ last.name \notin DOMAIN scopes[last.sc].vars)
    => last.res = get(scopes, defns[scopes[last.sc].fn].at, last.name)

\* C7 witness: the body read n, which the defining scope itself does not
\* bind and which read something else when the function was created (so an
\* enclosing binding was overwritten by a nonlocal assignment in between)
C7_Witness ==
    /\ last.op = "identifier" /\ last.name = "n" /\ last.res.kind = "ok"
    /\ scopes[last.sc].fn # 0
    /\ "n" \notin DOMAIN scopes[last.sc].vars
    /\ LET d == defns[scopes[last.sc].fn]
       IN /\ "n" \notin DOMAIN scopes[d.at].vars
          /\ d.seen.kind = "ok"
          /\ d.seen # last.res

\* C8: List and Object equality is structural: two Lists are equal iff they
\* have the same length and are elementwise Eq in order, two Objects iff
\* they have the same keys with Eq values under each key, whatever the order
\* the entries were inserted in.
C8_DeepEquality ==
    (vst.op = "Eq") =>
       /\ (vst.v.tag = "List" /\ vst.u.tag = "List") =>
             (vst.vu <=> /\ Len(vst.v.val) = Len(vst.u.val)
                         /\ \A i \in 1..Len(vst.v.val) :
                               i <= Len(vst.u.val) => Eq(vst.v.val[i], vst.u.val[i]))
       /\ (vst.v.tag = "Object" /\ vst.u.tag = "Object") =>
             (vst.vu <=> /\ DOMAIN vst.v.val = DOMAIN vst.u.val
                         /\ \A key \in DOMAIN vst.v.val \cap DOMAIN vst.u.val :
                               Eq(vst.v.val[key], vst.u.val[key]))
       /\ (/\ vst.vNode.kind = "object" /\ vst.uNode.kind = "object"
           /\ Len(vst.vNode.entries) = 2
           /\ vst.vNode.entries[1].key # vst.vNode.entries[2].key
           /\ vst.uNode.entries = <<vst.vNode.entries[2], vst.vNode.entries[1]>>)
          => (vst.vu /\ vst.uv)

\* C8 witness: two object literals with the same two entries in opposite
\* orders were compared and found equal
C8_Witness ==
    /\ vst.op = "Eq"
    /\ vst.vNode.kind = "object" /\ vst.uNode.kind = "object"
    /\ Len(vst.vNode.entries) = 2
    /\ vst.vNode.entries[1].key # vst.vNode.entries[2].key
    /\ vst.vNode.entries[1].val # vst.vNode.entries[2].val
    /\ vst.uNode.entries = <<vst.vNode.entries[2], vst.vNode.entries[1]>>
    /\ vst.vu

\* C9: a nonlocal assignment to a name that no scope of the chain defines
\* fails with the undefined-variable error and leaves every scope unchanged.
C9_NonlocalUndefinedFails ==
    [][(/\ last'.op = "assignNonlocal"
        /\ LET chain[s \in 0..Len(scopes)] ==
                  IF s = 0 THEN {} ELSE {s} \cup chain[scopes[s].parent]
           IN \A s \in chain[stack[Len(stack)].sc] :
                 last'.name \notin DOMAIN scopes[s].vars)
       => /\ last'.res = runtimeError("undefined")
          /\ scopes' = scopes
      ]_vars

\* C9 witness: a nonlocal assignment failed in a scope nested below another
\* block, and no scope defines the name afterwards
C9_Witness ==
    /\ last.op = "assignNonlocal" /\ last.res.kind = "err"
    /\ scopes[last.sc].parent # 1
    /\ \A s \in DOMAIN scopes : last.name \notin DOMAIN scopes[s].vars

\* C10: a named function literal evaluated in scope S leaves the name bound
\* to the function in S's own mapping, with S as the captured scope; and a
\* call of that name from inside the function's body (the name not bound in
\* the call scope, S's binding still in place) resolves to the same function.
C10_NamedFnBoundInDefiningScope ==
    /\ (last.op = "fn" /\ last.name # "") =>
          /\ last.name \in DOMAIN scopes[last.sc].vars
          /\ scopes[last.sc].vars[last.name] = last.res.val
          /\ last.res.val.scope = last.sc
    /\ (/\ last.op = "call"
        /\ scopes[last.sc].fn # 0
        /\ last.name = defns[scopes[last.sc].fn].name
        /\ last.name \notin DOMAIN scopes[last.sc].vars
        /\ LET d == defns[scopes[last.sc].fn]
           IN /\ last.name \in DOMAIN scopes[d.at].vars
              /\ scopes[d.at].vars[last.name].tag = "Fn"
              /\ scopes[d.at].vars[last.name].defn = scopes[last.sc].fn)
       => /\ "callee" \in DOMAIN last
          /\ last.callee.defn = scopes[last.sc].fn
          /\ last.callee = scopes[defns[scopes[last.sc].fn].at].vars[last.name]

\* C10 witness: the body of f called f and the call entered f again
C10_Witness ==
    /\ last.op = "call" /\ last.res.kind = "ok"
    /\ scopes[last.sc].fn # 0
    /\ last.name = defns[scopes[last.sc].fn].name
    /\ last.fn.defn = scopes[last.sc].fn
    /\ scopes[last.fnScope].fn = last.fn.defn
    /\ scopes[last.fnScope].parent = defns[last.fn.defn].at

C12_NullEquality ==
    (vst.op = "Eq" /\ vst.u = null) =>
       /\ vst.v.tag \notin {"Null", "Empty"} => (~vst.vu /\ ~vst.uv)
       /\ vst.v = null => (vst.vu /\ vst.uv)

\* C12 witness: a non-empty List was compared with Null, both ways
C12_Witness ==
    /\ vst.op = "Eq" /\ vst.u = null
    /\ vst.v.tag = "List" /\ Len(vst.v.val) > 0
    /\ ~vst.vu /\ ~vst.uv

\* C13: a push of a value onto a List (binary operator <<) returns the
\* list extended by the value.
\* (Violated: the binaryNode case panics, whatever the operator.)
C13_PushExtendsList ==
    (/\ vst.op = "binary" /\ vst.operator = "<<"
     /\ vst.left.kind = "ok" /\ vst.left.val.tag = "List"
     /\ vst.right.kind = "ok")
    => vst.res = Ok(ListValue(Append(vst.left.val.val, vst.right.val)))

\* C14: a runtime error raised at call depth d (d calls of user functions
\* entered and not yet returned) carries a stack trace that is the chain of
\* those d frames.
\* (Violated: no frame is ever recorded and the trace of every error is
\* the zero stackEntry.)
C14_ErrorCarriesCallChain ==
    (status = "error" /\ last.op # "propagate") =>
       Len(last.res.stackTrace) =
          Cardinality({i \in DOMAIN stack : stack[i].kind = "call"})

C16_NotCallableBeforeArgs ==
    [][(/\ last'.op = "call" /\ "callee" \in DOMAIN last'
        /\ last'.callee.tag # "Fn")
       => /\ last'.res = runtimeError("not a function")
          /\ scopes' = scopes
      ]_vars

\* C16 (amended): a call whose callee is not a function first evaluates its
\* arguments left to right in the scope of the call expression.  When
\* argument k fails, the arguments 1..k are the ones evaluated, the effects
\* of those before k stay, and the call fails with the error of argument k.
\* Otherwise all arguments are evaluated, their effects stay, and the call
\* fails with the not-callable error.  No call scope is entered.
C16_NotCallableAfterArgs ==
    [][(/\ last'.op = "call" /\ "callee" \in DOMAIN last'
        /\ last'.callee.tag # "Fn")
       => LET nodes == last'.argNodes
              sc == last'.sc
              F == {i \in 1..Len(nodes) : nodes[i].kind = "fail"}
              k == IF F = {} THEN Len(nodes)
                   ELSE CHOOSE i \in F : \A j \in F : i <= j
              written == {i \in 1..k : nodes[i].kind = "assign" /\ nodes[i].isLocal}
          IN /\ last'.callee = get(scopes, sc, last'.name).val
             /\ last'.log = [i \in 1..k |-> Ev("sub", i)]
             /\ last'.res = IF F = {} THEN runtimeError("not a function")
                            ELSE runtimeError("undefined")
             /\ \A i \in written :
                   (\A j \in written : j > i => nodes[j].name # nodes[i].name)
                   => scopes'[sc].vars[nodes[i].name] = nodes[i].val
             /\ \A x \in DOMAIN scopes'[sc].vars :
                   (\A i \in written : nodes[i].name # x)
                   => /\ x \in DOMAIN scopes[sc].vars
                      /\ scopes'[sc].vars[x] = scopes[sc].vars[x]
             /\ \A s \in DOMAIN scopes : s # sc => scopes'[s] = scopes[s]
             /\ Len(scopes') = Len(scopes)
             /\ stack' = stack
             /\ status' = "error"
      ]_vars

\* C16 witness: n, bound to 10, was called with the argument n := 30; the
\* call failed with the not-callable error and n reads 30 afterwards
C16_Witness ==
    /\ last.op = "call" /\ "callee" \in DOMAIN last
    /\ last.callee = IntValue(10)
    /\ last.name = "n"
    /\ last.res = runtimeError("not a function")
    /\ Len(last.argNodes) = 1 /\ last.argNodes[1].kind = "assign"
    /\ get(scopes, last.sc, "n") = Ok(IntValue(30))

\* C17: an object literal and a property read agree on keys: the Object
\* built by a literal with one entry whose computed key evaluates to a
\* String, Int or Float k gives, when read with the same key k, the value
\* stored under that key.
\* (Violated: the literal stores a String key by its bytes, the read looks
\* up the quoted form of the String and finds nothing.)
C17_LiteralAndReadAgree ==
    (/\ vst.op = "propertyAccess"
     /\ vst.leftNode.kind = "object"
     /\ Len(vst.leftNode.entries) = 1
     /\ vst.leftNode.entries[1].key = vst.rightNode
     /\ vst.right.kind = "ok"
     /\ vst.right.val.tag \in {"String", "Int", "Float"})
    => /\ vst.res = evalExpr(vst.leftNode.entries[1].val)
       /\ vst.res # Ok(null)

\* C18: evalProgram evaluates the top-level expressions in a fresh child
\* scope of the root scope, made anew for every call.  No step of a program
\* adds or changes an entry of the root scope's own mapping: a local
\* assignment or a named function definition at top level writes the
\* program's scope.  So the scope of a program starts empty and a name the
\* program before it bound at top level is undefined in it.
C18_ProgramScopeIsFresh ==
    [][/\ scopes'[1] = scopes[1]
       /\ (last'.op \in {"assignLocal", "fn"} /\ Len(stack) = 1 /\ last'.name # "")
          => /\ last'.sc = stack[1].sc /\ last'.sc # 1
             /\ last'.name \in DOMAIN scopes'[last'.sc].vars
             /\ last'.name \notin DOMAIN scopes'[1].vars
       /\ (last'.op = "evalProgram")
          => LET new == last'.sc
             IN /\ new = Len(scopes) + 1 /\ Len(scopes') = new
                /\ scopes'[new].parent = 1
                /\ DOMAIN scopes'[new].vars = {}
                /\ stack' = <<[sc |-> new, kind |-> "block"]>>
                /\ \A x \in Names : get(scopes', new, x) = get(scopes, 1, x)
                /\ \A x \in last'.prev : get(scopes', new, x).kind = "err"
      ]_vars

\* C18 witness: a program that bound n and f at top level ended, a second
\* program was started on the same Context, and n is undefined in it
C18_Witness ==
    /\ last.op = "evalProgram"
    /\ last.prev = {"n", "f"}
    /\ get(scopes, last.sc, "n").kind = "err"
    /\ get(scopes, last.sc, "f").kind = "err"

====
